---- MODULE Spec2Model ----
(***************************************************************************)
(* Model of gif2flipbook (src/gif2flipbook.py): a GIF is split into PNG    *)
(* frames, every frame is composed onto its own US-letter canvas and saved *)
(* as a one-page PDF fragment "<date> flipbook-<n>.pdf" in PDF_parts, the  *)
(* fragments are merged in the numeric order of <n> into the final         *)
(* "<date> flipbook.pdf", and PDF_parts and the PNG directory are removed. *)
(*                                                                         *)
(* Real numbers of the source are modelled exactly: a ratio is a pair      *)
(* <<numerator, denominator>> with a positive denominator.  math.floor of  *)
(* a float product that is an integer in exact arithmetic may come out one *)
(* lower (the double nearest to A/w times w can fall just below A), so the *)
(* floor takes a "slack" of 0 or 1 in exactly that case.                   *)
(* date.today() is the same day throughout: runs of different days use     *)
(* different directories and do not see each other's files.                *)
(***************************************************************************)
EXTENDS Integers, Sequences, FiniteSets, TLC

\* ------------------------------------------------------------------ bounds
MaxFrames == 10
MaxRuns == 2

\* ------------------------------------------------------- program constants
PageH == 3300
HalfPageW == 1275
CellBand == 1350
DefaultBorder == 75
NoneInt == -1

NoneFactor == <<0, 0>>
NoneLayout == <<NoneInt, NoneInt>>

\* ------------------------------------------------------------------ inputs
Widths == {1, 100, 1124, 1125, 1126, 1275, 2000, 2550}
Heights == {1, 100, 1274, 1275, 1276, 1350, 2000, 3300}
Borders == {0, 75, 300, 637}
RunSizes == {<<1000, 700>>}

\* -------------------------------------------------------- scale calculator
\* width_check = 1 - (width - (8.5/2*300 - 2*border)) / width
width_check(w, b) == <<HalfPageW - 2 * b, w>>

\* height_check = 1 - (height - (4.5*300 - border)) / height
height_check(h, b) == <<CellBand - b, h>>

RatLess(p, q) == p[1] * q[2] < q[1] * p[2]
LessOne(p) == p[1] < p[2]
MoreOne(p) == p[1] > p[2]
One == <<1, 1>>

min(p, q) == IF RatLess(q, p) THEN q ELSE p
max(p, q) == IF RatLess(q, p) THEN p ELSE q

ScaleFactorMax(w, h, b, nsi) ==
    LET wc == width_check(w, b)
        hc == height_check(h, b)
    IN  IF LessOne(wc) \/ LessOne(hc) THEN max(wc, hc)
        ELSE IF ~nsi /\ MoreOne(wc) /\ MoreOne(hc) THEN max(wc, hc)
        ELSE One

ScaleFactorGrow(w, h, b, nsi) ==
    LET wc == width_check(w, b)
        hc == height_check(h, b)
    IN  IF LessOne(wc) \/ LessOne(hc) THEN min(wc, hc)
        ELSE IF MoreOne(wc) /\ MoreOne(hc) THEN min(wc, hc)
        ELSE One

ScaleFactor(w, h, b, nsi) ==
    LET wc == width_check(w, b)
        hc == height_check(h, b)
    IN  IF LessOne(wc) \/ LessOne(hc) THEN min(wc, hc)
        ELSE IF ~nsi /\ MoreOne(wc) /\ MoreOne(hc) THEN min(wc, hc)
        ELSE One

\* math.floor(resize_factor * d); the product is inexact in floating point
\* only when resize_factor is not the integer 1
Exact(f, d) == (f[1] * d) % f[2] = 0
Slacks(f, d) == IF f # One /\ Exact(f, d) THEN {0, 1} ELSE {0}
FloorMul(f, d, slack) == ((f[1] * d) \div f[2]) - slack

\* ----------------------------------------------------- grid layout planner
\* image_layout_dcts[k], evaluated with the locals width, height, border
image_layout_dcts(k, w, h, b) ==
    CASE k = 0 -> <<(HalfPageW - w) \div 2, b>>
      [] k = 1 -> <<(3 * HalfPageW - w) \div 2, b>>
      [] k = 2 -> <<(3 * HalfPageW - w) \div 2, PageH - b - h>>
      [] k = 3 -> <<(HalfPageW - w) \div 2, PageH - b - h>>

Cells == 0 .. 3

\* ------------------------------------------------------- fragment naming
Digits == <<"0", "1", "2", "3", "4", "5", "6", "7", "8", "9">>
DigitVal(c) == (CHOOSE d \in 1 .. 10 : Digits[d] = c) - 1

\* str(n) for n >= 0
RECURSIVE IntToStr(_)
IntToStr(n) ==
    IF n < 10 THEN <<Digits[n + 1]>>
    ELSE IntToStr(n \div 10) \o <<Digits[(n % 10) + 1]>>

\* int(s) for a non-empty string of decimal digits
RECURSIVE StrToInt(_)
StrToInt(s) ==
    IF Len(s) = 1 THEN DigitVal(s[1])
    ELSE 10 * StrToInt(SubSeq(s, 1, Len(s) - 1)) + DigitVal(s[Len(s)])

\* str(date.today())
Today == <<"2", "0", "2", "3", "-", "1", "0", "-", "0", "5">>

\* str(date.today()) + " flipbook-" + str(pdf_number) + ".pdf"
FragmentName(p) ==
    Today \o <<" ", "f", "l", "i", "p", "b", "o", "o", "k", "-">>
          \o IntToStr(p) \o <<".", "p", "d", "f">>

\* x.split(sep)[-1]
RECURSIVE SplitLast(_, _)
SplitLast(x, sep) ==
    IF \E i \in 1 .. Len(x) : x[i] = sep
    THEN SplitLast(SubSeq(x, (CHOOSE i \in 1 .. Len(x) :
                                 x[i] = sep /\ \A j \in 1 .. i - 1 : x[j] # sep) + 1,
                          Len(x)), sep)
    ELSE x

\* x.split(sep)[0]
SplitFirst(x, sep) ==
    IF \E i \in 1 .. Len(x) : x[i] = sep
    THEN SubSeq(x, 1, (CHOOSE i \in 1 .. Len(x) :
                          x[i] = sep /\ \A j \in 1 .. i - 1 : x[j] # sep) - 1)
    ELSE x

\* the token the sort key is read from: x.split("-")[-1].split(".")[0]
SeqToken(x) == SplitFirst(SplitLast(x, "-"), ".")

\* lexicographic order of two digit strings
RECURSIVE LexLeq(_, _)
LexLeq(s, t) ==
    IF Len(s) = 0 THEN TRUE
    ELSE IF Len(t) = 0 THEN FALSE
    ELSE IF s[1] # t[1] THEN DigitVal(s[1]) < DigitVal(t[1])
    ELSE LexLeq(Tail(s), Tail(t))

KeyLeqLex(a, b) == LexLeq(SeqToken(a), SeqToken(b))

\* key=lambda x: int(x.split("-")[-1].split(".")[0])
KeyLeq(a, b) == StrToInt(SeqToken(a)) <= StrToInt(SeqToken(b))

\* sorted(l, key=...): stable, ascending
RECURSIVE InsertSorted(_, _)
InsertSorted(s, x) ==
    IF s = <<>> THEN <<x>>
    ELSE IF KeyLeq(s[Len(s)], x) THEN Append(s, x)
    ELSE Append(InsertSorted(SubSeq(s, 1, Len(s) - 1), x), s[Len(s)])

RECURSIVE Sorted(_)
Sorted(l) ==
    IF l = <<>> THEN <<>>
    ELSE InsertSorted(Sorted(SubSeq(l, 1, Len(l) - 1)), l[Len(l)])

\* glob.glob(os.path.join(pdf_path, "*.pdf")): the names in the directory, in
\* an order the file system chooses (a rotation, possibly reversed, of one
\* enumeration of the names)
RECURSIVE SetToSeq(_)
SetToSeq(S) ==
    IF S = {} THEN <<>>
    ELSE LET x == CHOOSE y \in S : TRUE IN <<x>> \o SetToSeq(S \ {x})

Rotate(l, r) ==
    IF l = <<>> THEN l
    ELSE LET k == r % Len(l) IN SubSeq(l, k + 1, Len(l)) \o SubSeq(l, 1, k)

Reverse(l) == [i \in 1 .. Len(l) |-> l[Len(l) + 1 - i]]

Listing(names, r, rev) ==
    LET base == Rotate(SetToSeq(names), r) IN IF rev THEN Reverse(base) ELSE base

\* ------------------------------------------------------------------- state
VARIABLES
    pc,               \* position of the run in gif2flipbook()
    run,              \* number of runs started so far
    border,           \* argument border
    no_size_increase, \* argument no_size_increase
    n_frames,         \* video_object.n_frames
    i_frame,          \* next index of "for i_frame in range(n_frames)"
    width, height,    \* frame.size of the first frame
    resize_factor,
    width_resized, height_resized,
    image_layout,
    pdf_number,
    pdf_files,        \* the sorted glob result
    merged,           \* pages appended to pdf_merger so far
    temporary,        \* the PNG directory exists
    bookDir,          \* the directory "<date> flipbook" exists
    partsDir,         \* its sub-directory PDF_parts exists
    parts,            \* the files of PDF_parts: records [name, page]
    finalDoc,         \* "<date> flipbook.pdf": [exists, pages]
    written,          \* this run has written the final document
    err               \* the step at which this run failed, or "none"

vars == <<pc, run, border, no_size_increase, n_frames, i_frame, width, height,
          resize_factor, width_resized, height_resized, image_layout,
          pdf_number, pdf_files, merged, temporary, bookDir, partsDir, parts,
          finalDoc, written, err>>

argVars == <<border, no_size_increase>>
scaleVars == <<width, height, resize_factor, width_resized, height_resized,
               image_layout>>
diskVars == <<temporary, bookDir, partsDir, parts, finalDoc>>
loopVars == <<n_frames, i_frame, pdf_number>>
mergeVars == <<pdf_files, merged>>

\* what one canvas holds: the frame pasted at image_layout (cell 0), rotated
\* by 180 degrees, and the four page-number glyphs
FramePastes == {[cell |-> 0, rot |-> 180]}
GlyphPastes == {[cell |-> 0, rot |-> 180], [cell |-> 1, rot |-> 180],
                [cell |-> 3, rot |-> 0], [cell |-> 2, rot |-> 0]}

\* seq is the number the canvas is saved under
Canvas(r, i, p) ==
    [run |-> r, frame |-> i, seq |-> p,
     frames |-> FramePastes, glyphs |-> GlyphPastes]

NextPdfNumberStuck(p) == 1

\* pdf_number += 1
NextPdfNumber(p) == p + 1

Names(dir) == {f.name : f \in dir}
FileAt(dir, nm) == CHOOSE f \in dir : f.name = nm

\* blank_canvas.save(path): creates the file or replaces the one of that name
SaveFile(dir, nm, pg) ==
    {f \in dir : f.name # nm} \cup {[name |-> nm, page |-> pg]}

InitDisk ==
    /\ temporary = FALSE
    /\ bookDir = FALSE
    /\ partsDir = FALSE
    /\ parts = {}
    /\ finalDoc = [exists |-> FALSE, pages |-> <<>>]

InitLocals ==
    /\ n_frames = 0
    /\ i_frame = 0
    /\ pdf_number = 0
    /\ resize_factor = NoneFactor
    /\ width_resized = NoneInt
    /\ height_resized = NoneInt
    /\ image_layout = NoneLayout
    /\ pdf_files = <<>>
    /\ merged = <<>>
    /\ written = FALSE
    /\ err = "none"

Init ==
    /\ pc = "idle"
    /\ run = 0
    /\ border = DefaultBorder
    /\ no_size_increase = FALSE
    /\ width = NoneInt
    /\ height = NoneInt
    /\ InitLocals
    /\ InitDisk

\* ----------------------------------------------------------------- the run
\* entry of gif2flipbook(): arguments bound, locals not yet assigned
StartRun ==
    /\ pc \in {"idle", "done", "failed"}
    /\ run < MaxRuns
    /\ run' = run + 1
    /\ pc' = "extract"
    /\ border' = DefaultBorder
    /\ no_size_increase' \in BOOLEAN
    /\ n_frames' = 0
    /\ i_frame' = 0
    /\ pdf_number' = 0
    /\ width' = NoneInt
    /\ height' = NoneInt
    /\ resize_factor' = NoneFactor
    /\ width_resized' = NoneInt
    /\ height_resized' = NoneInt
    /\ image_layout' = NoneLayout
    /\ pdf_files' = <<>>
    /\ merged' = <<>>
    /\ written' = FALSE
    /\ err' = "none"
    /\ UNCHANGED diskVars

\* 1. Convert video into pngs: every frame is saved to temporary/<i>.png
ExtractOk ==
    /\ pc = "extract"
    /\ temporary' = TRUE
    /\ n_frames' \in 0 .. MaxFrames
    /\ i_frame' = 0
    /\ pc' = "loop"
    /\ UNCHANGED <<run, argVars, scaleVars, pdf_number, mergeVars, bookDir,
                   partsDir, parts, finalDoc, written, err>>

\* Image.open, seek or save raises: the run ends (sys.exit)
ExtractFail ==
    /\ pc = "extract"
    /\ temporary' = TRUE
    /\ pc' = "failed"
    /\ err' = "extract"
    /\ UNCHANGED <<run, argVars, scaleVars, loopVars, mergeVars, bookDir,
                   partsDir, parts, finalDoc, written>>

\* the "if i_frame == 0" blocks of the loop body: scale, resized size, layout
FirstFrame(w, h, sw, sh) ==
    LET f == ScaleFactor(w, h, border, no_size_increase) IN
    /\ width' = w
    /\ height' = h
    /\ resize_factor' = f
    /\ width_resized' = FloorMul(f, w, sw)
    /\ height_resized' = FloorMul(f, h, sh)
    /\ image_layout' = image_layout_dcts(0, w, h, border)

ScaleStep ==
    IF i_frame = 0
    THEN \E sz \in RunSizes :
           LET f == ScaleFactor(sz[1], sz[2], border, no_size_increase) IN
           \E sw \in Slacks(f, sz[1]), sh \in Slacks(f, sz[2]) :
              FirstFrame(sz[1], sz[2], sw, sh)
    ELSE UNCHANGED scaleVars

\* one iteration of the loop: compose the canvas of frame i_frame and save it
\* as fragment number pdf_number
ComposeAndSave ==
    /\ pc = "loop"
    /\ i_frame < n_frames
    /\ ScaleStep
    /\ bookDir' = TRUE
    /\ partsDir' = TRUE
    /\ pdf_number' = NextPdfNumber(pdf_number)
    /\ parts' = SaveFile(parts, FragmentName(pdf_number'), Canvas(run, i_frame, pdf_number'))
    /\ i_frame' = i_frame + 1
    /\ UNCHANGED <<pc, run, argVars, n_frames, mergeVars, temporary, finalDoc,
                   written, err>>

\* composing raises (a canvas or a frame cannot be opened, resized, pasted)
ComposeFail ==
    /\ pc = "loop"
    /\ i_frame < n_frames
    /\ ScaleStep
    /\ pc' = "failed"
    /\ err' = "compose"
    /\ UNCHANGED <<run, argVars, loopVars, mergeVars, diskVars, written>>

\* blank_canvas.save raises: the directory is there, the file is not written
SaveFail ==
    /\ pc = "loop"
    /\ i_frame < n_frames
    /\ ScaleStep
    /\ bookDir' = TRUE
    /\ partsDir' = TRUE
    /\ pdf_number' = NextPdfNumber(pdf_number)
    /\ pc' = "failed"
    /\ err' = "save"
    /\ UNCHANGED <<run, argVars, n_frames, i_frame, mergeVars, temporary,
                   parts, finalDoc, written>>

\* pdf_files = sorted(glob.glob(...), key=...); pdf_merger = PdfMerger()
Glob ==
    /\ pc = "loop"
    /\ i_frame = n_frames
    /\ \E r \in 0 .. MaxFrames, rev \in BOOLEAN :
          pdf_files' = Sorted(Listing(Names(parts), r, rev))
    /\ merged' = <<>>
    /\ pc' = "append"
    /\ UNCHANGED <<run, argVars, scaleVars, loopVars, diskVars, written, err>>

\* pdf_merger.append(path) for the next path of pdf_files
AppendOk ==
    /\ pc = "append"
    /\ Len(merged) < Len(pdf_files)
    /\ merged' = Append(merged, FileAt(parts, pdf_files[Len(merged) + 1]).page)
    /\ UNCHANGED <<pc, run, argVars, scaleVars, loopVars, pdf_files, diskVars,
                   written, err>>

AppendFailSwallowed ==
    /\ pc = "append"
    /\ Len(merged) < Len(pdf_files)
    /\ pdf_files' = SubSeq(pdf_files, 1, Len(merged))
    /\ UNCHANGED <<pc, run, argVars, scaleVars, loopVars, merged, diskVars,
                   written, err>>

AppendFailCleans ==
    /\ pc = "append"
    /\ Len(merged) < Len(pdf_files)
    /\ pc' = "failed"
    /\ err' = "append"
    /\ parts' = {}
    /\ partsDir' = FALSE
    /\ UNCHANGED <<run, argVars, scaleVars, loopVars, mergeVars, temporary,
                   bookDir, finalDoc, written>>

\* pdf_merger.append(path) raises: the fragment cannot be read
AppendFail ==
    /\ pc = "append"
    /\ Len(merged) < Len(pdf_files)
    /\ pc' = "failed"
    /\ err' = "append"
    /\ UNCHANGED <<run, argVars, scaleVars, loopVars, mergeVars, diskVars,
                   written>>

\* pdf_merger.write(<date> flipbook/<date> flipbook.pdf)
WriteOk ==
    /\ pc = "append"
    /\ Len(merged) = Len(pdf_files)
    /\ bookDir
    /\ finalDoc' = [exists |-> TRUE, pages |-> merged]
    /\ written' = TRUE
    /\ pc' = "rmparts"
    /\ UNCHANGED <<run, argVars, scaleVars, loopVars, mergeVars, temporary,
                   bookDir, partsDir, parts, err>>

\* the directory of the final document does not exist: open() raises
WriteFail ==
    /\ pc = "append"
    /\ Len(merged) = Len(pdf_files)
    /\ ~bookDir
    /\ pc' = "failed"
    /\ err' = "write"
    /\ UNCHANGED <<run, argVars, scaleVars, loopVars, mergeVars, diskVars,
                   written>>

\* shutil.rmtree(pdf_path)
RmPartsOk ==
    /\ pc = "rmparts"
    /\ partsDir
    /\ parts' = {}
    /\ partsDir' = FALSE
    /\ pc' = "rmtemp"
    /\ UNCHANGED <<run, argVars, scaleVars, loopVars, mergeVars, temporary,
                   bookDir, finalDoc, written, err>>

\* shutil.rmtree(pdf_path) on a directory that does not exist raises
RmPartsFail ==
    /\ pc = "rmparts"
    /\ ~partsDir
    /\ pc' = "failed"
    /\ err' = "rmtree"
    /\ UNCHANGED <<run, argVars, scaleVars, loopVars, mergeVars, diskVars,
                   written>>

\* shutil.rmtree(temporary); the function returns
RmTemp ==
    /\ pc = "rmtemp"
    /\ temporary' = FALSE
    /\ pc' = "done"
    /\ UNCHANGED <<run, argVars, scaleVars, loopVars, mergeVars, bookDir,
                   partsDir, parts, finalDoc, written, err>>

Next ==
    \/ StartRun
    \/ ExtractOk
    \/ ExtractFail
    \/ ComposeAndSave
    \/ ComposeFail
    \/ SaveFail
    \/ Glob
    \/ AppendOk
    \/ AppendFail
    \/ WriteOk
    \/ WriteFail
    \/ RmPartsOk
    \/ RmPartsFail
    \/ RmTemp

Spec == Init /\ [][Next]_vars

\* ------------------------------------------- the scale and layout, alone
\* The "if i_frame == 0" blocks step by step, over every frame size, border
\* and no_size_increase of the input sets.
InitScale ==
    /\ pc = "measure"
    /\ run = 0
    /\ border \in Borders
    /\ no_size_increase \in BOOLEAN
    /\ width \in Widths
    /\ height \in Heights
    /\ InitLocals
    /\ InitDisk

ComputeScale ==
    /\ pc = "measure"
    /\ resize_factor' = ScaleFactor(width, height, border, no_size_increase)
    /\ pc' = "resize"
    /\ UNCHANGED <<run, argVars, width, height, width_resized, height_resized,
                   image_layout, loopVars, mergeVars, diskVars, written, err>>

ResizeFrame ==
    /\ pc = "resize"
    /\ \E sw \in Slacks(resize_factor, width),
          sh \in Slacks(resize_factor, height) :
          /\ width_resized' = FloorMul(resize_factor, width, sw)
          /\ height_resized' = FloorMul(resize_factor, height, sh)
    /\ pc' = "layout"
    /\ UNCHANGED <<run, argVars, width, height, resize_factor, image_layout,
                   loopVars, mergeVars, diskVars, written, err>>

PlanLayout ==
    /\ pc = "layout"
    /\ image_layout' = image_layout_dcts(0, width, height, border)
    /\ pc' = "planned"
    /\ UNCHANGED <<run, argVars, width, height, resize_factor, width_resized,
                   height_resized, loopVars, mergeVars, diskVars, written, err>>

NextScale ==
    \/ ComputeScale
    \/ ResizeFrame
    \/ PlanLayout

SpecScale == InitScale /\ [][NextScale]_vars

\* -------------------------------------------------------------- properties
CurrentFragments == {f \in parts : f.page.run = run}

LoopDone ==
    \/ pc = "loop" /\ i_frame = n_frames
    \/ pc \in {"append", "rmparts"}

CeilDiv(a, b) == (a + b - 1) \div b

TokenOf(x) == StrToInt(SeqToken(x))

\* C2: the merge takes the fragments in strictly ascending numeric order of
\* the number that ends their names, so page k of the final document is the
\* fragment saved with number k, whatever order the listing had.
C2_NumericMergeOrder ==
    /\ \A j, k \in 1 .. Len(pdf_files) :
          j < k => TokenOf(pdf_files[j]) < TokenOf(pdf_files[k])
    /\ pc = "append" => Len(pdf_files) = Cardinality(parts)
    /\ \A k \in 1 .. Len(merged) : merged[k].seq = k
    /\ \A k \in 1 .. Len(finalDoc.pages) : finalDoc.pages[k].seq = k

C2_Witness == written /\ Len(finalDoc.pages) >= 10

\* C3: with zero frames the run writes no final document.
C3_EmptyInputWritesNothing ==
    (pc \notin {"idle", "extract"} /\ err # "extract" /\ n_frames = 0)
        => ~written

FailedBeforeWrite == err \in {"extract", "compose", "save", "append"}

\* C4: the final document is written only after every page of the run has
\* been saved and appended; a run that fails in extraction, composing,
\* saving or appending writes nothing.
C4_AllOrNothing ==
    /\ written =>
          /\ ~FailedBeforeWrite
          /\ pdf_number = n_frames
          /\ \A i \in 0 .. n_frames - 1 :
                \E k \in 1 .. Len(finalDoc.pages) :
                   finalDoc.pages[k].run = run /\ finalDoc.pages[k].frame = i
    /\ FailedBeforeWrite => ~written

C4_Witness == written /\ n_frames >= 2 /\ run >= 2

CellW == HalfPageW - 2 * border
CellH == CellBand - border
Scaled == pc \in {"layout", "planned"}

\* C5: the resize factor is positive and the floored, scaled frame exceeds
\* neither the cell width 8.5/2*300 - 2*border nor the cell height
\* 4.5*300 - border by more than one pixel.
C5_ScaleFitsCell ==
    Scaled =>
        /\ resize_factor[1] > 0 /\ resize_factor[2] > 0
        /\ width_resized <= CellW + 1
        /\ height_resized <= CellH + 1

C5_Witness ==
    /\ pc = "planned"
    /\ LessOne(width_check(width, border))
    /\ MoreOne(height_check(height, border))
    /\ width_resized >= CellW - 1

RatEq(p, q) == p[1] * q[2] = q[1] * p[2]
BothAtLeastOne ==
    /\ ~LessOne(width_check(width, border))
    /\ ~LessOne(height_check(height, border))
BothMoreOne ==
    /\ MoreOne(width_check(width, border))
    /\ MoreOne(height_check(height, border))

\* C6: with no_size_increase the factor is at most 1, and exactly 1 when the
\* frame already fits; without it, a frame smaller than its cell on both
\* axes gets the smaller of the two ratios.
C6_NoSizeIncrease ==
    pc \in {"resize", "layout", "planned"} =>
        /\ no_size_increase => ~MoreOne(resize_factor)
        /\ (no_size_increase /\ BothAtLeastOne) => RatEq(resize_factor, One)
        /\ (~no_size_increase /\ BothMoreOne) =>
              /\ RatEq(resize_factor,
                       min(width_check(width, border),
                           height_check(height, border)))
              /\ MoreOne(resize_factor)

C6_Witness ==
    /\ pc = "planned"
    /\ no_size_increase
    /\ BothMoreOne
    /\ width_resized = width

CellRect(k) ==
    LET at == image_layout_dcts(k, width, height, border)
    IN  [x |-> at[1], y |-> at[2], w |-> width_resized, h |-> height_resized]

Disjoint(a, b) ==
    \/ a.x + a.w <= b.x
    \/ b.x + b.w <= a.x
    \/ a.y + a.h <= b.y
    \/ b.y + b.h <= a.y

\* C7: the scaled frames placed at the four layout positions do not overlap.
C7_CellsDisjoint ==
    pc = "planned" =>
        \A j, k \in Cells : j < k => Disjoint(CellRect(j), CellRect(k))

\* C8: on every page a glyph has the rotation of the frame pasted in its
\* cell, and no glyph is pasted for a cell without a frame.
C8_GlyphMatchesFrame ==
    \A f \in parts :
       \A g \in f.page.glyphs :
          \E fr \in f.page.frames : fr.cell = g.cell /\ fr.rot = g.rot

SavedCount == IF err = "save" THEN pdf_number - 1 ELSE pdf_number

\* C9: when a run has ended, the fragments and PDF_parts are gone if the
\* merge succeeded; otherwise every fragment the run saved is still on disk
\* and, after a fragment that cannot be read, no final document is written.
C9_FragmentCleanup ==
    pc \in {"done", "failed"} =>
        /\ written => (parts = {} /\ ~partsDir)
        /\ ~written =>
              \A k \in 1 .. SavedCount :
                 /\ partsDir
                 /\ \E f \in parts :
                       f.name = FragmentName(k) /\ f.page.run = run
        /\ err = "append" => ~written

C9_Witness ==
    /\ pc = "failed"
    /\ err = "append"
    /\ Len(merged) >= 1
    /\ Cardinality(parts) >= 2

\* C10: the final document a run over n >= 1 frames writes holds exactly the
\* fragments that run saved.
C10_OnlyOwnFragments ==
    (written /\ n_frames >= 1) =>
        /\ Len(finalDoc.pages) = n_frames
        /\ \A k \in 1 .. Len(finalDoc.pages) : finalDoc.pages[k].run = run

====
